---- MODULE Spec2Model ----
(***************************************************************************)
(* Model of src/storage.rs: the in-memory registry from block hash to the  *)
(* block's storage (Storage, Block, BlockState, BlockStorage, Child).      *)
(*                                                                         *)
(* Option<T> is modelled as a sequence of length at most one: None is <<>> *)
(* and Some(x) is <<x>>.  A HashMap is a function whose DOMAIN is its key  *)
(* set.  An Arc<BlockStorage> is an object identifier into `heap`, which   *)
(* holds the shared data and the strong count of every live allocation.    *)
(***************************************************************************)
EXTENDS Integers, Sequences, FiniteSets, Bags, TLC

\* ---- bounds of the model ----
NumHashes == 2      \* block hashes 1..NumHashes stand for H256 values
NumCodes == 2       \* distinct values callers of the registry store under b":code"
NumKeys == 1        \* top-level keys other than b":code"
NumValues == 2      \* distinct values
NumChildren == 2    \* child trie names
MaxObjs == 2        \* Arc allocations made in one behaviour
MaxHandles == 2     \* Arc clones held by callers at one time
MaxOps == 3         \* inserts applied to one BlockStorage built step by step

\* const CODE: &[u8] = b":code"
CODE == <<58, 99, 111, 100, 101>>

Hashes == 1..NumHashes
Keys == {CODE} \cup {<<k>> : k \in 1..NumKeys}
Values == {<<v>> : v \in 1..NumValues}
ChildNames == {<<c>> : c \in 1..NumChildren}
\* the registry does not look into the content it stores: its callers build
\* snapshots that differ in the value under b":code"
Codes == {<<v>> : v \in 1..NumCodes}

None == <<>>
Some(x) == <<x>>

\* ---- hashbrown::HashMap ----
HashMap_default == [x \in {} |-> x]

HashMap_insert(m, k, v) == [x \in (DOMAIN m) \cup {k} |-> IF x = k THEN v ELSE m[x]]

HashMap_get(m, k) == IF k \in DOMAIN m THEN Some(m[k]) ELSE None

\* HashMap::entry: the entry is Occupied when the key is present, else Vacant;
\* taking the entry does not change the map
HashMap_entry(m, k) == IF k \in DOMAIN m THEN "Occupied" ELSE "Vacant"

\* ---- BlockState ----
BlockState_default == [storage |-> None]

\* ---- BlockStorage / Child ----
BlockStorage_empty == [top_trie |-> HashMap_default, children |-> HashMap_default]

\* insert that keeps the value already stored under the key
insert_keep_first(s, key, value) ==
    [s EXCEPT !.top_trie = IF key \in DOMAIN s.top_trie THEN s.top_trie
                           ELSE HashMap_insert(s.top_trie, key, value)]

\* insert that also writes the pair into every existing child trie
insert_leaky(s, key, value) ==
    [s EXCEPT !.top_trie = HashMap_insert(s.top_trie, key, value),
              !.children = [c \in DOMAIN s.children |->
                               [trie |-> HashMap_insert(s.children[c].trie, key, value)]]]

insert(s, key, value) == [s EXCEPT !.top_trie = HashMap_insert(s.top_trie, key, value)]

code_key(s) == HashMap_get(s.top_trie, CODE)

Child_default == [trie |-> HashMap_default]

\* insertion into a named child trie (described by the specification only)
child_insert(s, name, key, value) ==
    LET c == IF name \in DOMAIN s.children THEN s.children[name] ELSE Child_default
    IN [s EXCEPT !.children =
            HashMap_insert(s.children, name, [trie |-> HashMap_insert(c.trie, key, value)])]

\* lookup in a named child trie (described by the specification only)
child_get(s, name, key) ==
    IF name \in DOMAIN s.children THEN HashMap_get(s.children[name].trie, key) ELSE None

\* external root computation (a collaborator outside the repository): a
\* digest of the top-level content, and the state root a hash's header declares
StateRoot(s) == Cardinality(DOMAIN s.top_trie) % 2

ExpectedRoot(hash) == hash % 2

\* ---- Arc ----
Arc_new(hp, id, data) == [x \in (DOMAIN hp) \cup {id} |-> IF x = id THEN [data |-> data, strong |-> 1] ELSE hp[x]]

Arc_clone(hp, o) == [hp EXCEPT ![o].strong = @ + 1]

\* dropping the last strong reference frees the allocation
Arc_drop(hp, o) ==
    IF hp[o].strong = 1 THEN [x \in (DOMAIN hp) \ {o} |-> hp[x]]
    ELSE [hp EXCEPT ![o].strong = @ - 1]

VARIABLES
    blocks,     \* Storage::blocks : hash -> BlockState
    heap,       \* live Arc<BlockStorage> allocations: id -> [data, strong]
    nextId,     \* identifier of the next Arc allocation
    acc,        \* the live Block accessor: Option<[hash, entry]>
    handles,    \* bag of Arc clones held by callers
    bs,         \* the BlockStorage value the caller is building: Option<BlockStorage>
    ret,        \* what the last call on Storage or Block returned
    published,  \* history: hash -> content passed to the last successful set_storage
    log         \* history: the inserts applied to a BlockStorage built step by step

vars == <<blocks, heap, nextId, acc, handles, bs, ret, published, log>>

Panicked == ret.res = "Panic"

\* Storage::empty()
Storage_empty == HashMap_default

Init ==
    /\ blocks = Storage_empty
    /\ heap = HashMap_default
    /\ nextId = 1
    /\ acc = None
    /\ handles = EmptyBag
    /\ bs = None
    /\ ret = [op |-> "empty", res |-> "Ok", val |-> None]
    /\ published = [h \in Hashes |-> None]
    /\ log = <<>>

\* block that inserts a default BlockState for a hash without a slot
block_creates_slot(hash) ==
    /\ ~Panicked
    /\ acc = None
    /\ blocks' = IF hash \in DOMAIN blocks THEN blocks
                 ELSE HashMap_insert(blocks, hash, BlockState_default)
    /\ acc' = Some([hash |-> hash, entry |-> "Occupied"])
    /\ ret' = [op |-> "block", res |-> "Ok", val |-> None]
    /\ UNCHANGED <<heap, nextId, handles, bs, published, log>>

\* Storage::block(&mut self, hash): takes the map entry of hash.  The
\* accessor borrows the registry mutably, so no second accessor can be made
\* while one is live.
block(hash) ==
    /\ ~Panicked
    /\ acc = None
    /\ acc' = Some([hash |-> hash, entry |-> HashMap_entry(blocks, hash)])
    /\ ret' = [op |-> "block", res |-> "Ok", val |-> None]
    /\ UNCHANGED <<blocks, heap, nextId, handles, bs, published, log>>

\* the value Block::storage(&self) returns for accessor a on registry b
Block_storage(b, a) ==
    IF a.entry = "Occupied" THEN b[a.hash].storage ELSE None

\* storage that moves the Arc out of the slot (Option::take) instead of cloning it
storage_take ==
    /\ ~Panicked
    /\ acc # None
    /\ LET r == Block_storage(blocks, acc[1])
       IN /\ r # None => BagCardinality(handles) < MaxHandles
          /\ blocks' = IF r = None THEN blocks
                       ELSE [blocks EXCEPT ![acc[1].hash].storage = None]
          /\ handles' = IF r = None THEN handles ELSE handles (+) SetToBag({r[1]})
          /\ ret' = [op |-> "storage", res |-> IF r = None THEN "None" ELSE "Some", val |-> r]
    /\ UNCHANGED <<heap, nextId, acc, bs, published, log>>

\* storage that hands out a deep copy in a new allocation instead of a clone of the Arc
storage_copy ==
    /\ ~Panicked
    /\ acc # None
    /\ LET r == Block_storage(blocks, acc[1])
       IN /\ r # None => (BagCardinality(handles) < MaxHandles /\ nextId <= MaxObjs + MaxHandles)
          /\ heap' = IF r = None THEN heap ELSE Arc_new(heap, nextId, heap[r[1]].data)
          /\ handles' = IF r = None THEN handles ELSE handles (+) SetToBag({nextId})
          /\ nextId' = IF r = None THEN nextId ELSE nextId + 1
          /\ ret' = [op |-> "storage", res |-> IF r = None THEN "None" ELSE "Some",
                     val |-> IF r = None THEN None ELSE Some(nextId)]
    /\ UNCHANGED <<blocks, acc, bs, published, log>>

\* Block::storage(&self): clones the Arc of the installed storage, if any
storage ==
    /\ ~Panicked
    /\ acc # None
    /\ LET r == Block_storage(blocks, acc[1])
       IN /\ r # None => BagCardinality(handles) < MaxHandles
          /\ heap' = IF r = None THEN heap ELSE Arc_clone(heap, r[1])
          /\ handles' = IF r = None THEN handles ELSE handles (+) SetToBag({r[1]})
          /\ ret' = [op |-> "storage", res |-> IF r = None THEN "None" ELSE "Some", val |-> r]
    /\ UNCHANGED <<blocks, nextId, acc, bs, published, log>>

\* set_storage that leaves an already installed storage in place
set_storage_keep_first ==
    /\ ~Panicked
    /\ acc # None
    /\ bs # None
    /\ nextId <= MaxObjs
    /\ LET hash == acc[1].hash
           old == Block_storage(blocks, acc[1])
       IN /\ blocks' = IF old = None
                       THEN HashMap_insert(blocks, hash, [storage |-> Some(nextId)])
                       ELSE blocks
          /\ heap' = IF old = None THEN Arc_new(heap, nextId, bs[1]) ELSE heap
          /\ published' = [published EXCEPT ![hash] = bs]
    /\ nextId' = nextId + 1
    /\ acc' = None
    /\ bs' = None
    /\ ret' = [op |-> "set_storage", res |-> "Ok", val |-> None]
    /\ UNCHANGED <<handles, log>>

\* set_storage that installs under the first hash whatever the accessor's hash
set_storage_wrong_key ==
    /\ ~Panicked
    /\ acc # None
    /\ bs # None
    /\ nextId <= MaxObjs
    /\ LET old == IF 1 \in DOMAIN blocks THEN blocks[1].storage ELSE None
           hp == Arc_new(heap, nextId, bs[1])
       IN /\ blocks' = HashMap_insert(blocks, 1, [storage |-> Some(nextId)])
          /\ heap' = IF old = None THEN hp ELSE Arc_drop(hp, old[1])
          /\ published' = [published EXCEPT ![acc[1].hash] = bs]
    /\ nextId' = nextId + 1
    /\ acc' = None
    /\ bs' = None
    /\ ret' = [op |-> "set_storage", res |-> "Ok", val |-> None]
    /\ UNCHANGED <<handles, log>>

\* set_storage that replaces the whole map by the one new entry
set_storage_clear ==
    /\ ~Panicked
    /\ acc # None
    /\ bs # None
    /\ nextId <= MaxObjs
    /\ blocks' = HashMap_insert(HashMap_default, acc[1].hash, [storage |-> Some(nextId)])
    /\ heap' = Arc_new(heap, nextId, bs[1])
    /\ published' = [published EXCEPT ![acc[1].hash] = bs]
    /\ nextId' = nextId + 1
    /\ acc' = None
    /\ bs' = None
    /\ ret' = [op |-> "set_storage", res |-> "Ok", val |-> None]
    /\ UNCHANGED <<handles, log>>

\* set_storage that overwrites the data of the installed allocation in place
set_storage_in_place ==
    /\ ~Panicked
    /\ acc # None
    /\ bs # None
    /\ nextId <= MaxObjs
    /\ LET hash == acc[1].hash
           old == Block_storage(blocks, acc[1])
       IN /\ blocks' = IF old = None
                       THEN HashMap_insert(blocks, hash, [storage |-> Some(nextId)])
                       ELSE blocks
          /\ heap' = IF old = None THEN Arc_new(heap, nextId, bs[1])
                     ELSE [heap EXCEPT ![old[1]].data = bs[1]]
          /\ published' = [published EXCEPT ![hash] = bs]
    /\ nextId' = nextId + 1
    /\ acc' = None
    /\ bs' = None
    /\ ret' = [op |-> "set_storage", res |-> "Ok", val |-> None]
    /\ UNCHANGED <<handles, log>>

\* set_storage that frees the replaced allocation whoever still holds it
set_storage_free_old ==
    /\ ~Panicked
    /\ acc # None
    /\ bs # None
    /\ nextId <= MaxObjs
    /\ LET hash == acc[1].hash
           old == Block_storage(blocks, acc[1])
           hp == Arc_new(heap, nextId, bs[1])
       IN /\ blocks' = HashMap_insert(blocks, hash, [storage |-> Some(nextId)])
          /\ heap' = IF old = None THEN hp ELSE [x \in (DOMAIN hp) \ {old[1]} |-> hp[x]]
          /\ published' = [published EXCEPT ![hash] = bs]
    /\ nextId' = nextId + 1
    /\ acc' = None
    /\ bs' = None
    /\ ret' = [op |-> "set_storage", res |-> "Ok", val |-> None]
    /\ UNCHANGED <<handles, log>>

\* set_storage taking &mut self: the accessor stays live with the entry it took
set_storage_keep_acc ==
    /\ ~Panicked
    /\ acc # None
    /\ bs # None
    /\ nextId <= MaxObjs
    /\ LET hash == acc[1].hash
           old == Block_storage(blocks, acc[1])
           hp == Arc_new(heap, nextId, bs[1])
       IN /\ blocks' = HashMap_insert(blocks, hash, [storage |-> Some(nextId)])
          /\ heap' = IF old = None THEN hp ELSE Arc_drop(hp, old[1])
          /\ published' = [published EXCEPT ![hash] = bs]
    /\ nextId' = nextId + 1
    /\ acc' = acc
    /\ bs' = None
    /\ ret' = [op |-> "set_storage", res |-> "Ok", val |-> None]
    /\ UNCHANGED <<handles, log>>

\* Block::set_storage(self, block_storage): no validation is performed;
\* entry.or_insert_with(BlockState::default).storage = Some(Arc::new(block_storage))
set_storage ==
    /\ ~Panicked
    /\ acc # None
    /\ bs # None
    /\ nextId <= MaxObjs
    /\ LET hash == acc[1].hash
           old == Block_storage(blocks, acc[1])
           hp == Arc_new(heap, nextId, bs[1])
       IN /\ blocks' = HashMap_insert(blocks, hash, [storage |-> Some(nextId)])
          /\ heap' = IF old = None THEN hp ELSE Arc_drop(hp, old[1])
          /\ published' = [published EXCEPT ![hash] = bs]
    /\ nextId' = nextId + 1
    /\ acc' = None
    /\ bs' = None
    /\ ret' = [op |-> "set_storage", res |-> "Ok", val |-> None]
    /\ UNCHANGED <<handles, log>>

\* Block::header(&self): unimplemented!() panics
header ==
    /\ ~Panicked
    /\ acc # None
    /\ acc' = None
    /\ ret' = [op |-> "header", res |-> "Panic", val |-> None]
    /\ UNCHANGED <<blocks, heap, nextId, handles, bs, published, log>>

\* the accessor goes out of scope without set_storage
drop_block ==
    /\ ~Panicked
    /\ acc # None
    /\ acc' = None
    /\ UNCHANGED <<blocks, heap, nextId, handles, bs, ret, published, log>>

\* a caller drops one Arc<BlockStorage> it got from storage()
drop_handle(o) ==
    /\ ~Panicked
    /\ BagIn(o, handles)
    /\ handles' = handles (-) SetToBag({o})
    /\ heap' = Arc_drop(heap, o)
    /\ UNCHANGED <<blocks, nextId, acc, bs, ret, published, log>>

\* BlockStorage::empty(): the caller starts a new builder
new_builder ==
    /\ ~Panicked
    /\ bs' = Some(BlockStorage_empty)
    /\ bs' # bs
    /\ UNCHANGED <<blocks, heap, nextId, acc, handles, ret, published, log>>

\* BlockStorage::insert(&mut self, key, value) on the caller's builder
builder_insert(key, value) ==
    /\ ~Panicked
    /\ bs # None
    /\ bs' = Some(insert(bs[1], key, value))
    /\ UNCHANGED <<blocks, heap, nextId, acc, handles, ret, published, log>>

\* #[derive(Clone)] on BlockStorage: the caller copies the data behind a
\* handle into a new, separately owned BlockStorage
builder_clone(o) ==
    /\ ~Panicked
    /\ BagIn(o, handles)
    /\ bs' = Some(heap[o].data)
    /\ UNCHANGED <<blocks, heap, nextId, acc, handles, ret, published, log>>

Next ==
    \/ \E hash \in Hashes : block(hash)
    \/ storage
    \/ set_storage
    \/ header
    \/ drop_block
    \/ \E o \in 1..MaxObjs : drop_handle(o)
    \/ new_builder
    \/ \E value \in Codes : builder_insert(CODE, value)
    \/ \E o \in 1..MaxObjs : builder_clone(o)

Spec == Init /\ [][Next]_vars

\* ---- building one BlockStorage step by step from empty() ----
InitBuild ==
    /\ blocks = Storage_empty
    /\ heap = HashMap_default
    /\ nextId = 1
    /\ acc = None
    /\ handles = EmptyBag
    /\ bs = Some(BlockStorage_empty)
    /\ ret = [op |-> "empty", res |-> "Ok", val |-> None]
    /\ published = [h \in Hashes |-> None]
    /\ log = <<>>

\* BlockStorage::insert(key, value), recorded in the log
run_insert(key, value) ==
    /\ Len(log) < MaxOps
    /\ bs' = Some(insert(bs[1], key, value))
    /\ log' = Append(log, [op |-> "insert", name |-> <<>>, key |-> key, value |-> value])
    /\ UNCHANGED <<blocks, heap, nextId, acc, handles, ret, published>>

\* an insert into the child trie called name, recorded in the log
run_child_insert(name, key, value) ==
    /\ Len(log) < MaxOps
    /\ bs' = Some(child_insert(bs[1], name, key, value))
    /\ log' = Append(log, [op |-> "child_insert", name |-> name, key |-> key, value |-> value])
    /\ UNCHANGED <<blocks, heap, nextId, acc, handles, ret, published>>

NextBuild ==
    \/ \E key \in Keys, value \in Values : run_insert(key, value)
    \/ \E name \in ChildNames, key \in Keys, value \in Values : run_child_insert(name, key, value)

SpecBuild == InitBuild /\ [][NextBuild]_vars

\* ---- observations used by the properties ----

\* what block(hash).storage() returns on registry b
block_storage(b, hash) ==
    Block_storage(b, [hash |-> hash, entry |-> HashMap_entry(b, hash)])

\* the content block(hash).storage() gives access to on registry b and heap hp
Installed(b, hp, hash) ==
    LET r == block_storage(b, hash)
    IN IF r = None THEN None ELSE Some(hp[r[1]].data)

\* the hashes whose slot references allocation o
RegistryRefs(b, o) == {h \in DOMAIN b : b[h].storage = Some(o)}

\* the value of the most recent top-level insert under b":code" in a log of inserts
RECURSIVE LastCode(_)
LastCode(l) ==
    IF l = <<>> THEN None
    ELSE LET o == l[Len(l)]
         IN IF o.op = "insert" /\ o.key = CODE THEN Some(o.value)
            ELSE LastCode(SubSeq(l, 1, Len(l) - 1))

\* ---- properties ----

\* C1: after set_storage(S) succeeded on a hash, storage() on that hash
\* returns a present snapshot whose top-level mapping equals that of S, as long
\* as no other set_storage was made on the hash; operations on other hashes
\* do not matter.
C1_SetThenGet ==
    /\ \A h \in Hashes :
          published[h] # None =>
             LET r == block_storage(blocks, h)
             IN /\ r # None
                /\ r[1] \in DOMAIN heap
                /\ heap[r[1]].data.top_trie = published[h][1].top_trie
    /\ (ret.op = "storage" /\ acc # None /\ published[acc[1].hash] # None) =>
          /\ ret.res = "Some"
          /\ heap[ret.val[1]].data.top_trie = published[acc[1].hash][1].top_trie

C1_Witness ==
    /\ ret.op = "storage"
    /\ acc # None
    /\ ret.res = "Some"
    /\ published[acc[1].hash] # None
    /\ published[acc[1].hash][1].top_trie # HashMap_default
    /\ heap[ret.val[1]].data.top_trie = published[acc[1].hash][1].top_trie
    /\ \E g \in Hashes \ {acc[1].hash} :
          /\ published[g] # None
          /\ published[g] # published[acc[1].hash]
          /\ blocks[g].storage[1] > blocks[acc[1].hash].storage[1]

\* C2: storage() returns None, and never an error, for every hash on which
\* set_storage has never succeeded, whether or not block was called on it.
C2_UnpublishedIsAbsent ==
    /\ \A h \in Hashes : published[h] = None => block_storage(blocks, h) = None
    /\ (ret.op = "storage" /\ acc # None /\ published[acc[1].hash] = None) =>
          (ret.res = "None" /\ ret.val = None)
    /\ ret.op = "storage" => ret.res \in {"None", "Some"}

C2_Witness ==
    /\ ret.op = "storage"
    /\ ret.res = "None"
    /\ acc # None
    /\ published[acc[1].hash] = None
    /\ \E g \in Hashes : published[g] # None

\* C3: a set_storage whose content has a state root different from the one
\* expected for the hash returns an IntegrityError and leaves the registry and
\* every snapshot as they were.
C3_IntegrityRejected ==
    [][(set_storage /\ StateRoot(bs[1]) # ExpectedRoot(acc[1].hash)) =>
          (ret'.res = "IntegrityError" /\ blocks' = blocks /\ heap' = heap)]_vars

\* C4: set_storage(S2) on a hash that already has a snapshot returns Ok, and
\* storage() on the hash then gives content S2 (last write wins).
C4_Overwrite ==
    [][(ret'.op = "set_storage" /\ acc # None /\ block_storage(blocks, acc[1].hash) # None) =>
          (/\ ret'.res = "Ok"
           /\ Installed(blocks', heap', acc[1].hash) = bs)]_vars

C4_Witness ==
    /\ ret.op = "set_storage"
    /\ \E h \in Hashes :
          /\ DOMAIN blocks = {h}
          /\ blocks[h].storage = Some(2)
          /\ BagIn(1, handles)
          /\ heap[1].data # heap[2].data
          /\ published[h] = Some(heap[2].data)

\* C5: a hash that has a slot keeps a slot, and a hash for which storage()
\* returns a snapshot keeps returning one, after every step.
C5_NeverBackwards ==
    [][\A h \in Hashes :
          /\ h \in DOMAIN blocks => h \in DOMAIN blocks'
          /\ block_storage(blocks, h) # None => block_storage(blocks', h) # None]_vars

C5_Witness ==
    /\ ret.op = "set_storage"
    /\ \E h \in Hashes : \E g \in Hashes \ {h} :
          /\ {h, g} \subseteq DOMAIN blocks
          /\ blocks[h].storage = Some(1)
          /\ blocks[g].storage = Some(2)

C7_ReadIsPure ==
    [][((\E h \in Hashes : block(h)) \/ storage) =>
          /\ \A h \in Hashes : Installed(blocks', heap', h) = Installed(blocks, heap, h)
          /\ blocks' = blocks
          /\ ret'.res \in {"Ok", "None", "Some"}
          /\ ret'.op = "storage" => ret'.val = block_storage(blocks, acc[1].hash)]_vars

C7_Witness ==
    /\ ret.op = "storage"
    /\ ret.res = "Some"
    /\ CopiesIn(ret.val[1], handles) = 2
    /\ acc # None
    /\ blocks[acc[1].hash].storage = ret.val

\* C8: the data of a snapshot never changes while the snapshot exists, and a
\* snapshot a caller holds a handle to keeps existing, whatever is inserted
\* into the caller's builder and whatever is installed afterwards.
C8_SnapshotImmutable ==
    [][\A o \in DOMAIN heap :
          /\ o \in DOMAIN heap' => heap'[o].data = heap[o].data
          /\ (BagIn(o, handles) /\ BagIn(o, handles')) => o \in DOMAIN heap']_vars

C8_Witness ==
    /\ bs # None
    /\ \E o \in DOMAIN heap : \E h \in Hashes :
          /\ BagIn(o, handles)
          /\ published[h] # None
          /\ blocks[h].storage # Some(o)
          /\ \A g \in DOMAIN blocks : blocks[g].storage # Some(o)
          /\ heap[o].data # published[h][1]
          /\ bs[1] # heap[o].data
          /\ bs[1].top_trie # HashMap_default

\* C9: code_key() of a BlockStorage built from empty() by inserts is the
\* value of the most recent insert under b":code", and None when there was
\* none; other inserts do not change it.
C9_CodeKey ==
    bs # None => code_key(bs[1]) = LastCode(log)

C9_Witness ==
    /\ Len(log) = 3
    /\ log[1].op = "insert" /\ log[1].key = CODE
    /\ log[2].op = "insert" /\ log[2].key = CODE
    /\ log[1].value # log[2].value
    /\ log[3].op = "insert" /\ log[3].key # CODE
    /\ code_key(bs[1]) = Some(log[2].value)

C11_HeaderNeverFails ==
    ret.op = "header" => ret.res \in {"None", "Some"}

\* C12 as stated: once a snapshot is published for a hash, the content
\* storage() gives for the hash is the same after every later step.
C12_WriteOnce ==
    [][\A h \in Hashes :
          Installed(blocks, heap, h) # None =>
             Installed(blocks', heap', h) = Installed(blocks, heap, h)]_vars

\* C12 amended: the content storage() gives for a hash stays the same through
\* every step that is not a set_storage on that hash; a set_storage on the
\* hash replaces it by the content passed.
C12_StableUntilRepublished ==
    [][\A h \in Hashes :
          Installed(blocks, heap, h) # None =>
             IF ret'.op = "set_storage" /\ acc = Some([hash |-> h, entry |-> "Occupied"])
             THEN Installed(blocks', heap', h) = bs
             ELSE Installed(blocks', heap', h) = Installed(blocks, heap, h)]_vars

C12_Witness ==
    /\ ret.op = "block"
    /\ acc # None
    /\ nextId = 3
    /\ \E h \in Hashes \ {acc[1].hash} :
          /\ DOMAIN blocks = {h}
          /\ blocks[h].storage = Some(2)
          /\ Installed(blocks, heap, h) = published[h]
          /\ published[h][1] # BlockStorage_empty

\* C13: a set_storage that replaces a snapshot drops one reference to it and
\* nothing more: where a caller holds a handle to it, it stays allocated with
\* the same data; an allocation disappears in a step only if afterwards neither
\* the registry nor any handle refers to it.
C13_ReplacedSnapshotSurvives ==
    [][/\ (ret'.op = "set_storage" /\ acc # None /\ Block_storage(blocks, acc[1]) # None) =>
             LET o == Block_storage(blocks, acc[1])[1]
             IN /\ RegistryRefs(blocks', o) = {}
                /\ BagIn(o, handles) =>
                      /\ o \in DOMAIN heap'
                      /\ heap'[o].data = heap[o].data
                      /\ heap'[o].strong = heap[o].strong - 1
                      /\ handles' = handles
       /\ \A o \in DOMAIN heap :
             o \notin DOMAIN heap' => (RegistryRefs(blocks', o) = {} /\ ~BagIn(o, handles'))]_vars

C13_Witness ==
    /\ ret.op = "set_storage"
    /\ \E o \in DOMAIN heap :
          /\ RegistryRefs(blocks, o) = {}
          /\ CopiesIn(o, handles) = 2
          /\ heap[o].strong = 2
          /\ \E h \in DOMAIN blocks : published[h] # Some(heap[o].data)

\* C14: storage() returns the allocation the registry holds for the hash:
\* no allocation is made, the data is not copied, the strong count grows by
\* one and always equals the number of holders; set_storage installs a new
\* allocation, and no allocation is referenced by two slots.
C14_SharedNotCopied ==
    [][/\ (storage /\ ret'.res = "Some") =>
             LET o == blocks[acc[1].hash].storage[1]
             IN /\ ret'.val = Some(o)
                /\ DOMAIN heap' = DOMAIN heap
                /\ heap'[o].data = heap[o].data
                /\ heap'[o].strong = heap[o].strong + 1
                /\ CopiesIn(o, handles') = CopiesIn(o, handles) + 1
       /\ (ret'.op = "set_storage" /\ acc # None) =>
             LET n == blocks'[acc[1].hash].storage[1]
             IN /\ n \notin DOMAIN heap
                /\ ~BagIn(n, handles')
                /\ heap'[n].strong = 1
       /\ \A o \in DOMAIN heap' :
             /\ Cardinality(RegistryRefs(blocks', o)) <= 1
             /\ heap'[o].strong = Cardinality(RegistryRefs(blocks', o)) + CopiesIn(o, handles')]_vars

C14_Witness ==
    /\ ret.op = "storage"
    /\ ret.res = "Some"
    /\ heap[ret.val[1]].strong = 3
    /\ \E h \in DOMAIN blocks : \E g \in DOMAIN blocks \ {h} :
          /\ blocks[h].storage = ret.val
          /\ blocks[g].storage # blocks[h].storage
          /\ Installed(blocks, heap, g) = Installed(blocks, heap, h)

\* C15: while an accessor is live no other accessor is made and the registry
\* does not change, so the entry the accessor took always describes the
\* current slot of its hash; set_storage ends the accessor.
C15_SingleWriter ==
    [][/\ acc' # None => acc'[1].entry = HashMap_entry(blocks', acc'[1].hash)
       /\ (acc # None /\ acc' # None) => (acc' = acc /\ blocks' = blocks)
       /\ blocks' # blocks => (acc # None /\ acc' = None)]_vars

C15_Witness ==
    /\ acc # None
    /\ acc[1].entry = "Occupied"
    /\ ret.op = "storage"
    /\ ret.res = "Some"
    /\ Cardinality(DOMAIN blocks) = 2
    /\ bs # None

\* C16: set_storage on an accessor for h changes the registry only at h: for
\* every other hash, having a slot, the allocation installed and its content
\* are the same before and after.
C16_SetStorageFrame ==
    [][(ret'.op = "set_storage" /\ acc # None) =>
          \A g \in Hashes \ {acc[1].hash} :
             /\ (g \in DOMAIN blocks') = (g \in DOMAIN blocks)
             /\ g \in DOMAIN blocks =>
                   /\ blocks'[g] = blocks[g]
                   /\ heap'[blocks'[g].storage[1]] = heap[blocks[g].storage[1]]]_vars

C16_Witness ==
    /\ ret.op = "set_storage"
    /\ \E h \in DOMAIN blocks : \E g \in DOMAIN blocks \ {h} :
          /\ blocks[g].storage = Some(1)
          /\ blocks[h].storage = Some(2)
          /\ heap[1].data # heap[2].data
          /\ BagIn(1, handles)

\* C17: every entry of the registry map has a snapshot installed, and the
\* key set of the map is the set of hashes on which set_storage was called:
\* neither block nor storage creates an entry.
C17_NoEmptySlot ==
    /\ \A h \in DOMAIN blocks : blocks[h].storage # None /\ blocks[h].storage[1] \in DOMAIN heap
    /\ DOMAIN blocks = {h \in Hashes : published[h] # None}

C17_Witness ==
    /\ ret.op = "storage"
    /\ ret.res = "None"
    /\ acc # None
    /\ acc[1].entry = "Vacant"
    /\ DOMAIN blocks = Hashes \ {acc[1].hash}
    /\ \A h \in DOMAIN blocks : blocks[h].storage # None

====
